---- MODULE Spec2Model ----
(***************************************************************************)
(* Model of forex_signal_bot.py: the instrument catalog, the market clock  *)
(* gate, the BUY/SELL coercion cascade and the per-user selection handlers *)
(* working on the shared user_data map.                                    *)
(*                                                                         *)
(* Python strings are TLA+ strings (TLC evaluates Len, SubSeq and \o on    *)
(* them).  The Cyrillic button labels are transliterated to ASCII.         *)
(* A call that can raise is modelled by a record whose field `raised`      *)
(* says whether it did.                                                    *)
(***************************************************************************)
EXTENDS Integers, Sequences, FiniteSets, TLC

VARIABLES user_data, now, event, reply, adapter, gate, lastSel,
          analysis, entropy, signal

vars == <<user_data, now, event, reply, adapter, gate, lastSel,
          analysis, entropy, signal>>

(***************************************************************************)
(* Bounds of the model.                                                    *)
(***************************************************************************)
\* how many of the 20 catalog pairs the model keeps
NumPairs == 1
\* how many chat users send updates
NumUsers == 2
\* longest per-indicator vote list of a report
MaxVotes == 3

(***************************************************************************)
(* String helpers: str.replace, str.upper, str.startswith.                 *)
(***************************************************************************)
RECURSIVE Replace(_, _, _)
Replace(s, old, new) ==
    IF Len(s) < Len(old) THEN s
    ELSE IF SubSeq(s, 1, Len(old)) = old
         THEN new \o Replace(SubSeq(s, Len(old) + 1, Len(s)), old, new)
         ELSE SubSeq(s, 1, 1) \o Replace(SubSeq(s, 2, Len(s)), old, new)

LowerChars == "abcdefghijklmnopqrstuvwxyz"
UpperChars == "ABCDEFGHIJKLMNOPQRSTUVWXYZ"

ToUpper ==
    [c \in {SubSeq(LowerChars, i, i) : i \in 1..Len(LowerChars)} |->
        LET i == CHOOSE j \in 1..Len(LowerChars) : SubSeq(LowerChars, j, j) = c
        IN  SubSeq(UpperChars, i, i)]

UpperChar(c) == IF c \in DOMAIN ToUpper THEN ToUpper[c] ELSE c

RECURSIVE Upper(_)
Upper(s) ==
    IF Len(s) = 0 THEN s
    ELSE UpperChar(SubSeq(s, 1, 1)) \o Upper(SubSeq(s, 2, Len(s)))

StartsWith(s, p) == Len(s) >= Len(p) /\ SubSeq(s, 1, Len(p)) = p

SeqToSet(q) == {q[i] : i \in 1..Len(q)}

(***************************************************************************)
(* Instrument catalog and timeframes.                                      *)
(***************************************************************************)
ALL_FOREX_PAIRS ==
    << "EUR/USD", "GBP/USD", "USD/JPY", "USD/CHF", "AUD/USD",
       "NZD/USD", "USD/CAD", "EUR/GBP", "EUR/JPY", "GBP/JPY",
       "AUD/JPY", "CHF/JPY", "EUR/AUD", "EUR/CAD", "GBP/AUD",
       "GBP/CAD", "AUD/CAD", "NZD/JPY", "EUR/NZD", "GBP/NZD" >>

FOREX_PAIRS == SubSeq(ALL_FOREX_PAIRS, 1, NumPairs)

OTC_PAIRS == [i \in 1..Len(FOREX_PAIRS) |-> FOREX_PAIRS[i] \o " OTC"]

TIMEFRAMES_FOREX == <<"1m", "5m", "15m", "30m", "1h">>
TIMEFRAMES_OTC   == <<"5s", "10s", "30s", "1m", "5m", "15m", "30m", "1h">>

ForexPairTexts == SeqToSet(FOREX_PAIRS)
OtcPairTexts   == SeqToSet(OTC_PAIRS)
PairTexts      == SeqToSet(FOREX_PAIRS \o OTC_PAIRS)
TimeframeTexts == SeqToSet(TIMEFRAMES_FOREX \o TIMEFRAMES_OTC)

INTERVAL_DEFAULT == "5m"

TF_MAP ==
    [tf \in SeqToSet(TIMEFRAMES_OTC) |->
        IF tf \in {"5s", "10s", "30s", "1m"} THEN "1m" ELSE tf]

TfMapGet(tf) == IF tf \in DOMAIN TF_MAP THEN TF_MAP[tf] ELSE INTERVAL_DEFAULT

EXPLANATIONS == [s \in {"BUY", "SELL"} |->
                    IF s = "BUY" THEN "impulse up" ELSE "pressure down"]

tv_symbol_from_pair(pair) ==
    LET base == Replace(pair, " OTC", "")
    IN  Replace(base, "/", "")

(***************************************************************************)
(* Market clock gate.  An instant is the Moscow civil time the handler     *)
(* reads: weekday 0 = Monday .. 6 = Sunday, hour, minute.                  *)
(***************************************************************************)
AllInstants == [weekday : 0..6, hour : 0..23, minute : 0..59]

is_market_closed_whole_hour(t) ==
    IF t.weekday \in {5, 6} THEN TRUE
    ELSE IF (t.hour = 22) \/ (0 <= t.hour /\ t.hour < 2) THEN TRUE
    ELSE FALSE

is_market_closed_sunday_only(t) ==
    IF t.weekday \in {6} THEN TRUE
    ELSE IF (t.hour = 22 /\ t.minute >= 45) \/ (0 <= t.hour /\ t.hour < 2) THEN TRUE
    ELSE FALSE

is_market_closed(t) ==
    IF t.weekday \in {5, 6} THEN TRUE
    ELSE IF (t.hour = 22 /\ t.minute >= 45) \/ (0 <= t.hour /\ t.hour < 2) THEN TRUE
    ELSE FALSE

(***************************************************************************)
(* Analysis reports.  A report has the attributes summary, oscillators and *)
(* moving_averages.  An attribute is a dict, or it is missing (absent or   *)
(* None), and then reading it with .get raises.  The value stored under    *)
(* "RECOMMENDATION" is a string, None (also: no such key), or some other   *)
(* object that has no .upper (a number).  "COMPUTE" of moving_averages is  *)
(* a dict of per-indicator votes (its values, in order), None, or some     *)
(* other object that has no .values.                                       *)
(***************************************************************************)
PyStr(s) == [type |-> "str", s |-> s]
PyNone   == [type |-> "none", s |-> ""]
PyOther  == [type |-> "other", s |-> ""]

RecStrings == {"STRONG_BUY", "BUY", "NEUTRAL", "SELL", "STRONG_SELL", "sell"}
RecValues  == {PyStr(s) : s \in RecStrings} \cup {PyNone, PyOther}

Votes == {"BUY", "SELL", "NEUTRAL"}

RECURSIVE SeqsUpTo(_, _)
SeqsUpTo(S, n) ==
    IF n = 0 THEN {<< >>}
    ELSE LET shorter == SeqsUpTo(S, n - 1)
         IN  shorter \cup {Append(q, x) : q \in {r \in shorter : Len(r) = n - 1}, x \in S}

ComputeDict(votes) == [type |-> "dict", votes |-> votes]
ComputeNone        == [type |-> "none", votes |-> << >>]
ComputeOther       == [type |-> "other", votes |-> << >>]

ComputeValues(n) ==
    {ComputeDict(v) : v \in SeqsUpTo(Votes, n)} \cup {ComputeNone, ComputeOther}

Group(rec, compute) == [attr |-> "dict", RECOMMENDATION |-> rec, COMPUTE |-> compute]
MissingGroup        == [attr |-> "missing", RECOMMENDATION |-> PyNone, COMPUTE |-> ComputeNone]

PlainGroups(recs)     == {Group(r, ComputeNone) : r \in recs} \cup {MissingGroup}
VoteGroups(recs, cvs) == {Group(r, c) : r \in recs, c \in cvs} \cup {MissingGroup}

ReportsOf(sums, mas, oscs) ==
    [summary : sums, moving_averages : mas, oscillators : oscs]

Reports ==
    ReportsOf(PlainGroups(RecValues),
              VoteGroups(RecValues, ComputeValues(MaxVotes)),
              PlainGroups(RecValues))

NoReport ==
    [summary |-> MissingGroup, moving_averages |-> MissingGroup, oscillators |-> MissingGroup]

(***************************************************************************)
(* coerce_to_buy_sell.                                                     *)
(***************************************************************************)
Returned(v) == [raised |-> FALSE, value |-> v]
Raised(e)   == [raised |-> TRUE, value |-> e]
NoResult    == [raised |-> FALSE, value |-> "<not called>"]

\* (group.get("RECOMMENDATION") or "").upper()
ReadRecommendation(group) ==
    IF group.attr = "missing" THEN Raised("AttributeError")
    ELSE LET v == group.RECOMMENDATION
         IN  IF v.type = "none" THEN Returned("")
             ELSE IF v.type = "str" THEN Returned(Upper(v.s))
             ELSE Raised("AttributeError")

\* the two-sided test of one recommendation: "" when it decides nothing
Direction_passthrough(rec) == rec

Direction_strong_only(rec) ==
    IF rec = "STRONG_BUY" THEN "BUY"
    ELSE IF rec = "STRONG_SELL" THEN "SELL"
    ELSE ""

Direction(rec) ==
    IF rec \in {"BUY", "STRONG_BUY"} THEN "BUY"
    ELSE IF rec \in {"SELL", "STRONG_SELL"} THEN "SELL"
    ELSE ""

RECURSIVE CountPrefix(_, _)
CountPrefix(votes, p) ==
    IF Len(votes) = 0 THEN 0
    ELSE (IF StartsWith(Upper(Head(votes)), p) THEN 1 ELSE 0)
         + CountPrefix(Tail(votes), p)

\* the try block of the vote tally: "" when it decides nothing or raises
VoteTally_swapped(ma) ==
    IF ma.attr = "missing" \/ ma.COMPUTE.type = "other" THEN ""
    ELSE LET ma_counts == IF ma.COMPUTE.type = "none" THEN << >> ELSE ma.COMPUTE.votes
             buy_cnt   == CountPrefix(ma_counts, "BUY")
             sell_cnt  == CountPrefix(ma_counts, "SELL")
         IN  IF buy_cnt < sell_cnt THEN "BUY"
             ELSE IF sell_cnt < buy_cnt THEN "SELL"
             ELSE ""

VoteTally_skipped(ma) == ""

VoteTally(ma) ==
    IF ma.attr = "missing" \/ ma.COMPUTE.type = "other" THEN ""
    ELSE LET ma_counts == IF ma.COMPUTE.type = "none" THEN << >> ELSE ma.COMPUTE.votes
             buy_cnt   == CountPrefix(ma_counts, "BUY")
             sell_cnt  == CountPrefix(ma_counts, "SELL")
         IN  IF buy_cnt > sell_cnt THEN "BUY"
             ELSE IF sell_cnt > buy_cnt THEN "SELL"
             ELSE ""

\* choice is what random.choice(["BUY", "SELL"]) draws
coerce_to_buy_sell_osc_first(a, choice) ==
    LET s1      == ReadRecommendation(a.summary)
        summary == IF s1.raised THEN "" ELSE s1.value
    IN  IF Direction(summary) # "" THEN Returned(Direction(summary))
        ELSE LET osc_rec == ReadRecommendation(a.oscillators)
             IN  IF osc_rec.raised THEN osc_rec
                 ELSE IF Direction(osc_rec.value) # "" THEN Returned(Direction(osc_rec.value))
                 ELSE LET ma_rec == ReadRecommendation(a.moving_averages)
                      IN  IF ma_rec.raised THEN ma_rec
                          ELSE IF Direction(ma_rec.value) # ""
                               THEN Returned(Direction(ma_rec.value))
                          ELSE IF VoteTally(a.moving_averages) # ""
                               THEN Returned(VoteTally(a.moving_averages))
                          ELSE Returned(choice)

coerce_to_buy_sell(a, choice) ==
    LET s1      == ReadRecommendation(a.summary)
        summary == IF s1.raised THEN "" ELSE s1.value
    IN  IF Direction(summary) # "" THEN Returned(Direction(summary))
        ELSE LET ma_rec == ReadRecommendation(a.moving_averages)
             IN  IF ma_rec.raised THEN ma_rec
                 ELSE IF Direction(ma_rec.value) # "" THEN Returned(Direction(ma_rec.value))
                 ELSE LET osc_rec == ReadRecommendation(a.oscillators)
                      IN  IF osc_rec.raised THEN osc_rec
                          ELSE IF Direction(osc_rec.value) # ""
                               THEN Returned(Direction(osc_rec.value))
                          ELSE IF VoteTally(a.moving_averages) # ""
                               THEN Returned(VoteTally(a.moving_averages))
                          ELSE Returned(choice)

(***************************************************************************)
(* analyze_with_tradingview.  feed is what handler.get_analysis() does:    *)
(* it returns a report or raises.  The call made to the adapter is         *)
(* recorded as the arguments of TA_Handler.                                *)
(***************************************************************************)
\* tv_symbol_from_pair over the catalog, computed once
TvSymbols == [p \in PairTexts |-> tv_symbol_from_pair(p)]

TvSymbol(pair) ==
    IF pair \in DOMAIN TvSymbols THEN TvSymbols[pair] ELSE tv_symbol_from_pair(pair)

AdapterCall(pair, timeframe, is_otc) ==
    [symbol    |-> TvSymbol(pair),
     screener  |-> "forex",
     exchange  |-> "FX_IDC",
     interval  |-> TfMapGet(timeframe),
     pair      |-> pair,
     timeframe |-> timeframe,
     is_otc    |-> is_otc]

FeedOk(report) == [ok |-> TRUE, report |-> report]
FeedFails      == [ok |-> FALSE, report |-> NoReport]

\* what get_analysis() may hand to a handler
FeedReports ==
    {[summary         |-> Group(PyStr("BUY"), ComputeNone),
      moving_averages |-> Group(PyStr("SELL"), ComputeDict(<<"SELL">>)),
      oscillators     |-> Group(PyStr("NEUTRAL"), ComputeNone)],
     [summary         |-> Group(PyStr("NEUTRAL"), ComputeNone),
      moving_averages |-> Group(PyStr("NEUTRAL"), ComputeDict(<<"SELL">>)),
      oscillators     |-> Group(PyStr("NEUTRAL"), ComputeNone)],
     [summary         |-> Group(PyStr("NEUTRAL"), ComputeNone),
      moving_averages |-> Group(PyNone, ComputeDict(<< >>)),
      oscillators     |-> Group(PyStr("NEUTRAL"), ComputeNone)],
     [summary         |-> Group(PyStr("NEUTRAL"), ComputeNone),
      moving_averages |-> MissingGroup,
      oscillators     |-> Group(PyStr("NEUTRAL"), ComputeNone)]}

Feeds == {FeedOk(r) : r \in FeedReports} \cup {FeedFails}

Choices == {"BUY", "SELL"}

\* coerce_to_buy_sell over those reports, computed once
FeedSignals == [r \in FeedReports |-> [c \in Choices |-> coerce_to_buy_sell(r, c)]]

Coerced(report, choice) ==
    IF report \in DOMAIN FeedSignals THEN FeedSignals[report][choice]
    ELSE coerce_to_buy_sell(report, choice)

analyze_with_tradingview(pair, timeframe, is_otc, feed, choice) ==
    IF ~feed.ok THEN [raised |-> TRUE, signal |-> "", explain |-> "get_analysis failed"]
    ELSE LET sig == Coerced(feed.report, choice)
         IN  IF sig.raised
             THEN [raised |-> TRUE, signal |-> "", explain |-> sig.value]
             ELSE IF sig.value \notin DOMAIN EXPLANATIONS
             THEN [raised |-> TRUE, signal |-> "", explain |-> "KeyError"]
             ELSE [raised |-> FALSE, signal |-> sig.value, explain |-> EXPLANATIONS[sig.value]]

(***************************************************************************)
(* Sessions, updates and replies.                                          *)
(***************************************************************************)
Users == 1..NumUsers

Session(pair, otc) == [present |-> TRUE, pair |-> pair, otc |-> otc]
NoSession          == [present |-> FALSE, pair |-> "", otc |-> FALSE]

BTN_SELECT == "Vybrat valyutnuyu paru"
BTN_FOREX  == "Obychnye pary"
BTN_OTC    == "OTC pary"
BTN_BACK   == "Nazad"
BTN_CHANGE == "Smenit paru"
CMD_START  == "/start"

\* texts that match no handler of main()
StrayTexts == {"XAU/USD", "2h"}

Texts ==
    PairTexts \cup TimeframeTexts
    \cup {BTN_SELECT, BTN_FOREX, BTN_OTC, BTN_BACK, BTN_CHANGE, CMD_START}
    \cup StrayTexts

\* prev: the pair the store held for uid when the update arrived ("" if none)
Event(op, uid, text, prev) == [op |-> op, uid |-> uid, text |-> text, prev |-> prev]
NoEvent                    == [op |-> "none", uid |-> 0, text |-> "", prev |-> ""]

Reply(kind, pair, tf, sig, keyboard) ==
    [kind |-> kind, pair |-> pair, tf |-> tf, signal |-> sig, keyboard |-> keyboard]
NoReply == Reply("none", "", "", "", << >>)

MenuKeyboard == <<BTN_SELECT, BTN_FOREX, BTN_OTC>>

\* the handler of main() that takes an update with this text ("" if none)
Route(text) ==
    IF text = CMD_START THEN "start"
    ELSE IF text = BTN_FOREX THEN "choose_forex"
    ELSE IF text = BTN_OTC THEN "choose_otc"
    ELSE IF text = BTN_BACK THEN "back"
    ELSE IF text = BTN_SELECT THEN "main_menu"
    ELSE IF text = BTN_CHANGE THEN "change_pair"
    ELSE IF text \in TimeframeTexts THEN "timeframe_chosen"
    ELSE IF text \in PairTexts THEN "pair_chosen"
    ELSE ""

Handlers ==
    {"start", "choose_forex", "choose_otc", "back", "main_menu", "change_pair",
     "timeframe_chosen", "pair_chosen", ""}

\* the texts main() hands to each handler
RoutedTo == [h \in Handlers |-> {t \in Texts : Route(t) = h}]

\* what one step leaves behind: the reply sent, the adapter calls made and
\* what the clock gate answered ("unread" when it was not asked)
Outcome(r, calls, g) == reply' = r /\ adapter' = calls /\ gate' = g

CoerceIdle == UNCHANGED <<analysis, entropy, signal>>

\* the instants at which the model lets updates arrive: either
\* side of the 22:45 boundary of the gate, on a Tuesday and a Saturday
Instants ==
    [weekday : {1, 5}, hour : {22}, minute : {44, 45}]

(***************************************************************************)
(* Handlers.                                                               *)
(***************************************************************************)
MenuReply(uid, op, text, kind, keyboard) ==
    /\ event' = Event(op, uid, text, user_data[uid].pair)
    /\ Outcome(Reply(kind, "", "", "", keyboard), << >>, "unread")
    /\ UNCHANGED <<user_data, now, lastSel>>
    /\ CoerceIdle

start(uid, text) ==
    /\ MenuReply(uid, "start", text, "start", MenuKeyboard)

main_menu(uid, text) ==
    /\ MenuReply(uid, "main_menu", text, "menu", MenuKeyboard)

back_clears(uid, text) ==
    /\ event' = Event("back", uid, text, user_data[uid].pair)
    /\ Outcome(Reply("menu", "", "", "", MenuKeyboard), << >>, "unread")
    /\ user_data' = [user_data EXCEPT ![uid] = NoSession]
    /\ UNCHANGED <<now, lastSel>>
    /\ CoerceIdle

back(uid, text) ==
    /\ MenuReply(uid, "back", text, "menu", MenuKeyboard)

change_pair(uid, text) ==
    /\ MenuReply(uid, "change_pair", text, "menu", MenuKeyboard)

choose_forex(uid, text) ==
    /\ MenuReply(uid, "choose_forex", text, "forex_list", FOREX_PAIRS \o <<BTN_BACK>>)

choose_otc(uid, text) ==
    /\ MenuReply(uid, "choose_otc", text, "otc_list", OTC_PAIRS \o <<BTN_BACK>>)

\* user_data[uid] = {"pair": text, "otc": otc}
StoreSelection_keep_first(ud, uid, pair, otc) ==
    IF ud[uid].present THEN ud ELSE [ud EXCEPT ![uid] = Session(pair, otc)]

StoreSelection_shared(ud, uid, pair, otc) == [u \in Users |-> Session(pair, otc)]

StoreSelection_stale_flag(ud, uid, pair, otc) ==
    [ud EXCEPT ![uid] = Session(pair, IF ud[uid].present THEN ud[uid].otc ELSE otc)]

StoreSelection_strip_otc(ud, uid, pair, otc) ==
    [ud EXCEPT ![uid] = Session(Replace(pair, " OTC", ""), otc)]

StoreSelection(ud, uid, pair, otc) == [ud EXCEPT ![uid] = Session(pair, otc)]

pair_chosen(uid, text) ==
    /\ event' = Event("pair_chosen", uid, text, user_data[uid].pair)
    /\ IF text \in ForexPairTexts
       THEN /\ user_data' = StoreSelection(user_data, uid, text, FALSE)
            /\ Outcome(Reply("pair_ok", text, "", "",
                             TIMEFRAMES_FOREX \o <<BTN_CHANGE, BTN_BACK>>), << >>, "unread")
       ELSE IF text \in OtcPairTexts
       THEN /\ user_data' = StoreSelection(user_data, uid, text, TRUE)
            /\ Outcome(Reply("pair_ok", text, "", "",
                             TIMEFRAMES_OTC \o <<BTN_CHANGE, BTN_BACK>>), << >>, "unread")
       ELSE /\ user_data' = user_data
            /\ Outcome(NoReply, << >>, "unread")
    /\ lastSel' = IF text \in PairTexts
                  THEN [lastSel EXCEPT ![uid] = text]
                  ELSE lastSel
    /\ UNCHANGED now
    /\ CoerceIdle

\* tf not in TIMEFRAMES_FOREX + TIMEFRAMES_OTC
UnknownTimeframe(tf) == tf \notin TimeframeTexts

\* uid not in user_data
SessionMissing_never(ud, uid) == FALSE

SessionMissing(ud, uid) == ~ud[uid].present

\* (not is_otc) and is_market_closed()
GateBlocks_never(is_otc, t) == FALSE

GateBlocks_otc_too(is_otc, t) == is_market_closed(t)

GateBlocks(is_otc, t) == (~is_otc) /\ is_market_closed(t)

\* what is_market_closed() answered in that condition; `and` does not
\* evaluate it for an OTC session
GateAnswer(is_otc, t) ==
    IF is_otc THEN "unread" ELSE IF is_market_closed(t) THEN "closed" ELSE "open"

\* the call of analyze_with_tradingview and how it ended: "returned", or
\* what it raised
AdapterCalled(pair, tf, is_otc, res) ==
    AdapterCall(pair, tf, is_otc)
    @@ [ended |-> IF res.raised THEN res.explain ELSE "returned"]

\* try: text = signal message / except Exception: text = error message; then
\* reply_text(text)
TryAnalysis_uncaught(res, pair, tf) ==
    IF res.raised
    THEN NoReply
    ELSE Reply("signal", pair, tf, res.signal, << >>)

TryAnalysis(res, pair, tf) ==
    IF res.raised
    THEN Reply("analysis_failed", pair, tf, "", << >>)
    ELSE Reply("signal", pair, tf, res.signal, << >>)

timeframe_chosen(uid, tf) ==
    /\ event' = Event("timeframe_chosen", uid, tf, user_data[uid].pair)
    /\ IF UnknownTimeframe(tf)
       THEN Outcome(NoReply, << >>, "unread")
       ELSE IF SessionMissing(user_data, uid)
       THEN Outcome(Reply("no_selection", "", "", "", << >>), << >>, "unread")
       ELSE LET pair   == user_data[uid].pair
                is_otc == user_data[uid].otc
            IN  IF GateBlocks(is_otc, now)
                THEN Outcome(Reply("market_closed", "", "", "", <<BTN_OTC, BTN_BACK>>),
                             << >>, GateAnswer(is_otc, now))
                ELSE \E feed \in Feeds, choice \in Choices :
                        LET res == analyze_with_tradingview(pair, tf, is_otc, feed, choice)
                        IN  Outcome(TryAnalysis(res, pair, tf),
                                    <<AdapterCalled(pair, tf, is_otc, res)>>,
                                    GateAnswer(is_otc, now))
    /\ UNCHANGED <<user_data, now, lastSel>>
    /\ CoerceIdle

\* an update no handler of main() matches
unhandled(uid, text) ==
    /\ event' = Event("unhandled", uid, text, user_data[uid].pair)
    /\ Outcome(NoReply, << >>, "unread")
    /\ UNCHANGED <<user_data, now, lastSel>>
    /\ CoerceIdle

(***************************************************************************)
(* The bot: updates of the users arrive one at a time (run_polling hands   *)
(* each update to the first matching handler and awaits it; the only await *)
(* of a handler is its final reply), and time passes between them.  event, *)
(* reply, adapter and gate describe the step just taken; lastSel records   *)
(* the text of each user's latest pair selection ("" if none).  A step in  *)
(* which only time passes leaves no event.                                 *)
(***************************************************************************)
Init ==
    /\ user_data = [u \in Users |-> NoSession]
    /\ now \in Instants
    /\ event = NoEvent
    /\ reply = NoReply
    /\ adapter = << >>
    /\ gate = "unread"
    /\ lastSel = [u \in Users |-> ""]
    /\ analysis = NoReport
    /\ entropy = "BUY"
    /\ signal = NoResult

TimePasses ==
    /\ \E t \in Instants \ {now} : now' = t
    /\ event' = NoEvent
    /\ Outcome(NoReply, << >>, "unread")
    /\ UNCHANGED <<user_data, lastSel>>
    /\ CoerceIdle

Next ==
    \/ \E uid \in Users :
          \/ \E text \in RoutedTo["start"] : start(uid, text)
          \/ \E text \in RoutedTo["main_menu"] : main_menu(uid, text)
          \/ \E text \in RoutedTo["back"] : back(uid, text)
          \/ \E text \in RoutedTo["change_pair"] : change_pair(uid, text)
          \/ \E text \in RoutedTo["choose_forex"] : choose_forex(uid, text)
          \/ \E text \in RoutedTo["choose_otc"] : choose_otc(uid, text)
          \/ \E text \in RoutedTo["pair_chosen"] : pair_chosen(uid, text)
          \/ \E text \in RoutedTo["timeframe_chosen"] : timeframe_chosen(uid, text)
          \/ \E text \in RoutedTo[""] : unhandled(uid, text)
    \/ TimePasses

Spec == Init /\ [][Next]_vars

(***************************************************************************)
(* The clock gate on its own: every minute of the week.                    *)
(***************************************************************************)
InitClock ==
    /\ user_data = [u \in Users |-> NoSession]
    /\ now \in AllInstants
    /\ event = NoEvent
    /\ reply = NoReply
    /\ adapter = << >>
    /\ gate = "unread"
    /\ lastSel = [u \in Users |-> ""]
    /\ analysis = NoReport
    /\ entropy = "BUY"
    /\ signal = NoResult

ReadClock ==
    /\ gate = "unread"
    /\ gate' = IF is_market_closed(now) THEN "closed" ELSE "open"
    /\ UNCHANGED <<user_data, now, event, reply, adapter, lastSel>>
    /\ CoerceIdle

MinutePasses ==
    /\ now' = IF now.minute < 59 THEN [now EXCEPT !.minute = now.minute + 1]
              ELSE IF now.hour < 23 THEN [now EXCEPT !.minute = 0, !.hour = now.hour + 1]
              ELSE [weekday |-> (now.weekday + 1) % 7, hour |-> 0, minute |-> 0]
    /\ gate' = "unread"
    /\ UNCHANGED <<user_data, event, reply, adapter, lastSel>>
    /\ CoerceIdle

NextClock == ReadClock \/ MinutePasses

SpecClock == InitClock /\ [][NextClock]_vars

(***************************************************************************)
(* The coercion cascade on its own: every report of the bounded shape and  *)
(* both draws of random.choice.                                            *)
(***************************************************************************)
InitCoerce ==
    /\ user_data = [u \in Users |-> NoSession]
    /\ now \in {[weekday |-> 0, hour |-> 12, minute |-> 0]}
    /\ event = NoEvent
    /\ reply = NoReply
    /\ adapter = << >>
    /\ gate = "unread"
    /\ lastSel = [u \in Users |-> ""]
    /\ analysis \in Reports
    /\ entropy \in Choices
    /\ signal = NoResult

Coerce ==
    /\ signal = NoResult
    /\ signal' = coerce_to_buy_sell(analysis, entropy)
    /\ UNCHANGED <<user_data, now, event, reply, adapter, gate, lastSel, analysis, entropy>>

NextCoerce == Coerce

SpecCoerce == InitCoerce /\ [][NextCoerce]_vars

(***************************************************************************)
(* Properties of the coercion cascade (SpecCoerce).                        *)
(***************************************************************************)
Signals == {"BUY", "SELL"}

\* C1: whenever coerce_to_buy_sell returns a value, that value is BUY or
\* SELL, never NEUTRAL and never empty, whatever the report holds.
C1_ReturnedSignalIsBuyOrSell ==
    (signal # NoResult /\ ~signal.raised) => signal.value \in Signals

\* C1 witness: a value was returned for a report whose three recommendations
\* are NEUTRAL or absent and whose votes are tied.
C1_Witness ==
    /\ signal # NoResult /\ ~signal.raised
    /\ analysis.summary = Group(PyNone, ComputeNone)
    /\ analysis.moving_averages = Group(PyStr("NEUTRAL"), ComputeDict(<<"BUY", "SELL">>))
    /\ analysis.oscillators = Group(PyStr("NEUTRAL"), ComputeNone)
    /\ signal.value = "SELL"

\* C2: coerce_to_buy_sell never raises: a failure to read the fields of a
\* stage makes that stage inconclusive, and every report, also one with all
\* fields absent or malformed, yields BUY or SELL.
C2_CoerceNeverRaises ==
    signal # NoResult => (~signal.raised /\ signal.value \in Signals)

(***************************************************************************)
(* Properties of the clock gate (SpecClock).                               *)
(***************************************************************************)
MinuteOfDay(t) == t.hour * 60 + t.minute

InNightlyWindow(t) == MinuteOfDay(t) >= 22 * 60 + 45 \/ MinuteOfDay(t) < 2 * 60

\* C4: on Monday to Friday is_market_closed answers true at every minute
\* from 22:45 up to but not including 02:00 of the following day.
C4_WeekdayNightlyWindowClosed ==
    (gate # "unread" /\ now.weekday \in 0..4 /\ InNightlyWindow(now)) => gate = "closed"

\* C5: on Monday to Friday is_market_closed answers false at every minute
\* from 02:00 up to but not including 22:45.
C5_WeekdayDaytimeOpen ==
    (gate # "unread" /\ now.weekday \in 0..4 /\ ~InNightlyWindow(now)) => gate = "open"

\* C5 witness: the gate was read on Tuesday 22:44 and answered open.
C5_Witness ==
    gate = "open" /\ now = [weekday |-> 1, hour |-> 22, minute |-> 44]

\* C6: is_market_closed answers true at every minute of Saturday and Sunday.
C6_WeekendClosed ==
    (gate # "unread" /\ now.weekday \in {5, 6}) => gate = "closed"

\* C6 witness: the gate was read on Saturday 10:00 and answered closed.
C6_Witness ==
    gate = "closed" /\ now = [weekday |-> 5, hour |-> 10, minute |-> 0]

(***************************************************************************)
(* Properties of the selection handlers (Spec).                            *)
(***************************************************************************)
OtcOnlyTimeframes == TimeframeTexts \ SeqToSet(TIMEFRAMES_FOREX)

SessionOf(sel) ==
    IF sel = "" THEN NoSession ELSE Session(sel, sel \in OtcPairTexts)

\* C3: for a user whose session holds a non-OTC pair, a timeframe of the OTC
\* set only (5s, 10s, 30s) is rejected and the adapter is not called.
C3_OtcOnlyTimeframeRejected ==
    (/\ event.op = "timeframe_chosen"
     /\ user_data[event.uid].present
     /\ ~user_data[event.uid].otc
     /\ event.text \in OtcOnlyTimeframes)
    => (adapter = << >> /\ reply.kind \notin {"signal", "analysis_failed"})

\* C7: a timeframe chosen by a user who never selected a pair is answered
\* with "no active selection", calls no adapter and leaves the store as it
\* was, the user's key still absent.
C7_NoActiveSelection ==
    [][(event'.op = "timeframe_chosen" /\ lastSel[event'.uid] = "")
       => (/\ reply'.kind = "no_selection"
           /\ adapter' = << >>
           /\ user_data' = user_data
           /\ ~user_data'[event'.uid].present)]_vars

\* C7 witness: a user without any selection chose a timeframe while another
\* user holds a session.
C7_Witness ==
    /\ event.op = "timeframe_chosen"
    /\ lastSel[event.uid] = ""
    /\ reply.kind = "no_selection"
    /\ \E u \in Users : user_data[u].present

\* C8: a standard timeframe chosen on a non-OTC session while the gate
\* reports closed is answered with "market closed", which carries no signal,
\* calls no adapter and leaves the store as it was.
C8_MarketClosedOutcome ==
    [][(/\ event'.op = "timeframe_chosen"
        /\ user_data[event'.uid].present
        /\ ~user_data[event'.uid].otc
        /\ event'.text \in SeqToSet(TIMEFRAMES_FOREX)
        /\ is_market_closed(now))
       => (/\ reply'.kind = "market_closed"
           /\ reply'.signal = ""
           /\ adapter' = << >>
           /\ user_data' = user_data)]_vars

\* C8 witness: a non-OTC session got the "market closed" answer on Tuesday
\* 22:45.
C8_Witness ==
    /\ event.op = "timeframe_chosen"
    /\ event.text = "15m"
    /\ user_data[event.uid] = Session("EUR/USD", FALSE)
    /\ now = [weekday |-> 1, hour |-> 22, minute |-> 45]
    /\ reply.kind = "market_closed"
    /\ gate = "closed"

\* C9: a timeframe chosen on an OTC session never reads the clock gate: at
\* every instant, closed ones included, the adapter is called and the answer
\* is not "market closed".
C9_OtcBypassesGate ==
    (/\ event.op = "timeframe_chosen"
     /\ user_data[event.uid].present
     /\ user_data[event.uid].otc)
    => (Len(adapter) = 1 /\ reply.kind # "market_closed" /\ gate = "unread")

\* C9 witness: an OTC session got a signal on a Saturday, when the gate
\* would answer closed.
C9_Witness ==
    /\ event.op = "timeframe_chosen"
    /\ user_data[event.uid] = Session("EUR/USD OTC", TRUE)
    /\ now.weekday = 5 /\ is_market_closed(now)
    /\ Len(adapter) = 1
    /\ reply.kind = "signal"

\* C10: every user's session is exactly the pair and OTC flag of that user's
\* latest pair selection, and a timeframe chosen afterwards is gated on that
\* flag and analysed for that pair.
C10_LastWriteWins ==
    /\ \A u \in Users : user_data[u] = SessionOf(lastSel[u])
    /\ (event.op = "timeframe_chosen" /\ lastSel[event.uid] # "")
       => LET sel == SessionOf(lastSel[event.uid])
          IN  /\ gate = (IF sel.otc THEN "unread"
                          ELSE IF is_market_closed(now) THEN "closed" ELSE "open")
              /\ (adapter = << >>) = (~sel.otc /\ is_market_closed(now))
              /\ adapter # << >>
                 => (/\ adapter[1].pair = sel.pair
                     /\ adapter[1].is_otc = sel.otc
                     /\ reply.pair = sel.pair)

\* C10 witness: a selection replaced a different earlier one of the same
\* user, and the store holds the new one with its own OTC flag.
C10_Witness ==
    /\ event.op = "pair_chosen"
    /\ event.prev = "EUR/USD"
    /\ event.text = "EUR/USD OTC"
    /\ user_data[event.uid] = Session("EUR/USD OTC", TRUE)

\* C11: when the call of analyze_with_tradingview raises during a timeframe
\* choice, the handler answers "analysis failed" for that pair and
\* timeframe, the store is left as it was, and the adapter was called once.
C11_AdapterFailureRecovered ==
    [][(/\ event'.op = "timeframe_chosen"
        /\ adapter' # << >>
        /\ \E i \in 1..Len(adapter') : adapter'[i].ended # "returned")
       => (/\ reply'.kind = "analysis_failed"
           /\ reply'.pair = adapter'[1].pair
           /\ reply'.tf = event'.text
           /\ reply'.signal = ""
           /\ Len(adapter') = 1
           /\ user_data' = user_data)]_vars

\* C11 witness: get_analysis failed for a user holding a session, and the
\* handler answered "analysis failed".
C11_Witness ==
    /\ event.op = "timeframe_chosen"
    /\ Len(adapter) = 1
    /\ adapter[1].ended = "get_analysis failed"
    /\ reply.kind = "analysis_failed"
    /\ user_data[event.uid].present

(***************************************************************************)
(* More properties of the coercion cascade (SpecCoerce).                   *)
(***************************************************************************)
BuyStrings  == {"BUY", "STRONG_BUY"}
SellStrings == {"SELL", "STRONG_SELL"}

\* the group is there and its recommendation is one of these strings
Recommends(group, strings) ==
    /\ group.attr = "dict"
    /\ group.RECOMMENDATION.type = "str"
    /\ group.RECOMMENDATION.s \in strings

\* the group's recommendation is NEUTRAL or there is none
NeutralOrNone(group) ==
    /\ group.attr = "dict"
    /\ \/ group.RECOMMENDATION = PyNone
       \/ group.RECOMMENDATION = PyStr("NEUTRAL")

NeutralOrAbsent(group) == group = MissingGroup \/ NeutralOrNone(group)

VoteCount(votes, v) == Cardinality({i \in 1..Len(votes) : votes[i] = v})

\* C12: an overall recommendation BUY or STRONG_BUY makes the result BUY and
\* SELL or STRONG_SELL makes it SELL, whatever the trend-following group,
\* the oscillator group and the votes hold, absent and malformed included.
C12_StageOneShortCircuit ==
    signal # NoResult
    => /\ Recommends(analysis.summary, BuyStrings) => signal = Returned("BUY")
       /\ Recommends(analysis.summary, SellStrings) => signal = Returned("SELL")

\* C12 witness: overall STRONG_BUY gave BUY although the oscillators say
\* SELL and the trend-following group is missing.
C12_Witness ==
    /\ signal = Returned("BUY")
    /\ analysis.summary = Group(PyStr("STRONG_BUY"), ComputeNone)
    /\ analysis.moving_averages = MissingGroup
    /\ analysis.oscillators = Group(PyStr("SELL"), ComputeNone)

\* C13: with the overall recommendation NEUTRAL or absent, a directional
\* trend-following recommendation decides the result, whatever the
\* oscillator recommendation and the votes are.
C13_TrendBeforeOscillators ==
    (signal # NoResult /\ NeutralOrAbsent(analysis.summary))
    => /\ Recommends(analysis.moving_averages, BuyStrings) => signal = Returned("BUY")
       /\ Recommends(analysis.moving_averages, SellStrings) => signal = Returned("SELL")

\* C13 witness: overall NEUTRAL, trend STRONG_SELL, oscillators BUY and a
\* BUY majority of votes gave SELL.
C13_Witness ==
    /\ signal = Returned("SELL")
    /\ analysis.summary = Group(PyStr("NEUTRAL"), ComputeNone)
    /\ analysis.moving_averages = Group(PyStr("STRONG_SELL"), ComputeDict(<<"BUY", "BUY">>))
    /\ analysis.oscillators = Group(PyStr("BUY"), ComputeNone)

NonDirectional(group) ==
    \/ group.attr = "missing"
    \/ group.RECOMMENDATION.type # "str"
    \/ Upper(group.RECOMMENDATION.s) \notin (BuyStrings \cup SellStrings)

\* the BUY and SELL vote counts are equal, or the votes cannot be read
VotesTiedOrUnreadable(ma) ==
    \/ ma.attr = "missing"
    \/ ma.COMPUTE.type # "dict"
    \/ VoteCount(ma.COMPUTE.votes, "BUY") = VoteCount(ma.COMPUTE.votes, "SELL")

FullEquilibrium(a) ==
    /\ NonDirectional(a.summary)
    /\ NonDirectional(a.moving_averages)
    /\ NonDirectional(a.oscillators)
    /\ VotesTiedOrUnreadable(a.moving_averages)

\* C17: outside full equilibrium (three non-directional recommendations and
\* tied or unreadable votes) the result is the same for both draws of
\* random.choice, so the draw matters under full equilibrium only.
C17_DrawOnlyUnderEquilibrium ==
    (signal # NoResult /\ ~FullEquilibrium(analysis))
    => \A c \in Choices : coerce_to_buy_sell(analysis, c) = signal

\* C17 witness: a SELL majority of votes gave SELL when the draw was BUY.
C17_Witness ==
    /\ signal = Returned("SELL")
    /\ entropy = "BUY"
    /\ ~FullEquilibrium(analysis)
    /\ analysis.summary = MissingGroup
    /\ analysis.moving_averages = Group(PyStr("NEUTRAL"), ComputeDict(<<"SELL", "BUY", "SELL">>))
    /\ analysis.oscillators = Group(PyNone, ComputeNone)

(***************************************************************************)
(* More properties of the handlers (Spec).                                 *)
(***************************************************************************)
\* texts a user can send as an instrument, and as a timeframe
InstrumentTexts == PairTexts \cup {"XAU/USD"}
TimeframeLikeTexts == TimeframeTexts \cup {"2h"}

\* the timeframes offered for a session with this OTC flag
ValidTimeframes(otc) ==
    IF otc THEN SeqToSet(TIMEFRAMES_OTC) ELSE SeqToSet(TIMEFRAMES_FOREX)

\* C15: an update naming an instrument of neither catalog, or a timeframe
\* outside the set valid for the OTC flag of the sender's session, changes
\* no session, calls no adapter and gets no reply.
C15_InvalidSelectionIsNoOp ==
    [][(/\ event'.op # "none"
        /\ \/ event'.text \in InstrumentTexts \ PairTexts
           \/ /\ event'.text \in TimeframeLikeTexts
              /\ user_data[event'.uid].present
              /\ event'.text \notin ValidTimeframes(user_data[event'.uid].otc))
       => (/\ user_data' = user_data
           /\ reply' = NoReply
           /\ adapter' = << >>)]_vars

\* C16: only pair_chosen writes the store: every other handler, each outcome
\* of timeframe_chosen included, leaves every session as it was, and no
\* step removes a key that is present.
C16_OnlySelectionWritesStore ==
    [][/\ event'.op # "pair_chosen" => user_data' = user_data
       /\ \A u \in Users : user_data[u].present => user_data'[u].present]_vars

\* C16 witness: "back" was handled for a user who holds a session, and the
\* session is still the one held before.
C16_Witness ==
    /\ event.op = "back"
    /\ event.prev = "EUR/USD"
    /\ user_data[event.uid] = Session("EUR/USD", FALSE)
    /\ reply.kind = "menu"

\* C18: a step taken for one user leaves the session of every other user as
\* it was, and at all times each user's session is that user's own latest
\* valid selection, or absent if there was none.
C18_UsersIsolated ==
    /\ [][\A v \in Users : v # event'.uid => user_data'[v] = user_data[v]]_vars
    /\ [](\A u \in Users :
            /\ lastSel[u] = "" => user_data[u] = NoSession
            /\ lastSel[u] # "" => /\ user_data[u].present
                                  /\ user_data[u].pair = lastSel[u])

\* C18 witness: user 2 has just selected an OTC pair while user 1 still
\* holds the standard pair selected before.
C18_Witness ==
    /\ event.op = "pair_chosen"
    /\ event.uid = 2
    /\ user_data[2] = Session("EUR/USD OTC", TRUE)
    /\ lastSel[1] = "EUR/USD"
    /\ user_data[1] = Session("EUR/USD", FALSE)

\* C19: in one timeframe choice the OTC flag the gate was decided on, the
\* pair handed to the adapter and the pair named in the answer belong to one
\* selection: the flag is the catalog of that pair, the clock was read
\* exactly when the pair is a standard one, and "market closed" is answered
\* for a standard pair only.
C19_GateAndAnalysisSameSelection ==
    event.op = "timeframe_chosen"
    => /\ adapter # << >>
          => /\ adapter[1].is_otc = (adapter[1].pair \in OtcPairTexts)
             /\ reply.pair = adapter[1].pair
             /\ gate = (IF adapter[1].pair \in OtcPairTexts THEN "unread" ELSE "open")
       /\ reply.kind = "market_closed"
          => /\ gate = "closed"
             /\ event.prev \in ForexPairTexts

\* C19 witness: a user who replaced a standard pair by an OTC pair chose a
\* timeframe on Tuesday 22:45: the clock was not read and the analysis ran
\* for the OTC pair.
C19_Witness ==
    /\ event.op = "timeframe_chosen"
    /\ now = [weekday |-> 1, hour |-> 22, minute |-> 45]
    /\ event.prev = "EUR/USD OTC"
    /\ Len(adapter) = 1
    /\ adapter[1].pair = "EUR/USD OTC"
    /\ adapter[1].is_otc
    /\ gate = "unread"
    /\ reply.pair = "EUR/USD OTC"

\* C20: every stored session is well formed: its pair is in exactly one of
\* the two catalogs and its OTC flag is TRUE exactly for a pair of the OTC
\* catalog.
C20_SessionsWellFormed ==
    \A u \in Users :
        user_data[u].present
        => /\ (user_data[u].pair \in ForexPairTexts) # (user_data[u].pair \in OtcPairTexts)
           /\ user_data[u].otc = (user_data[u].pair \in OtcPairTexts)

\* C20 witness: the store holds a standard session and an OTC session.
C20_Witness ==
    /\ \E u \in Users : user_data[u] = Session("EUR/USD", FALSE)
    /\ \E u \in Users : user_data[u] = Session("EUR/USD OTC", TRUE)
    /\ ForexPairTexts \cap OtcPairTexts = {}

====
